---- MODULE Spec2Model ----
(***************************************************************************)
(* A model of bufrng (src/src/lib.rs): BufRng, a generator that replays    *)
(* the bytes of a caller-supplied buffer and yields zeros once the buffer  *)
(* is exhausted.                                                           *)
(*                                                                         *)
(* Words.  A u32 or u64 value is written as the sequence of its bytes,     *)
(* most significant first (its base-256 digits): <<a, b, c, d>> is the u32 *)
(* a*2^24 + b*2^16 + c*2^8 + d.  The width is the length of the sequence,  *)
(* and a shift drops the digits that leave at the top, as the machine      *)
(* word does.  Shifts are by multiples of 8, the only ones the code uses.  *)
(*                                                                         *)
(* next_u64 and fill_bytes delegate to rand_core::impls::next_u64_via_u32  *)
(* and rand_core::impls::fill_bytes_via_next (lib.rs:216, lib.rs:220).     *)
(* Those helpers are modelled by what rand_core does: little-endian        *)
(* composition, (second draw << 32) | first draw, and to_le_bytes() of     *)
(* each draw when filling.                                                 *)
(***************************************************************************)
EXTENDS Integers, Sequences, FiniteSets, TLC

\* Bounds of the model.
MaxBufLen == 12    \* longest source buffer
MaxDest == 9       \* longest destination of a fill
MaxCalls == 4      \* calls counted exactly by the history counter `calls`

\* The source buffers.  No operation branches on the value of a byte, so a
\* buffer of distinct bytes stands for every buffer of its length: the
\* buffers are the ramps first, first + 1, ... (mod 256) of every length up to
\* MaxBufLen.  They include [], [1, 2], [1, 2, 3, 4], [1, ..., 8] and [255],
\* and buffers that hold the bytes 255 and 0.
Firsts == {1, 255}
Ramp(n, first) == [i \in 1..n |-> (first + (i - 1)) % 256]
Buffers == {Ramp(n, f) : n \in 0..MaxBufLen, f \in Firsts}

\* The byte every position of a destination holds before a fill.
PriorVals == {0, 170}

VARIABLES
    data,     \* the caller's buffer, as passed to new
    rng,      \* the BufRng: its slice iterator, [buf, pos]
    rng2,     \* a second BufRng built from an equal buffer, driven alike
    before,   \* rng as it was before the last operation
    op,       \* the last operation
    ret,      \* the value the last draw returned (<<>> for a fill)
    ret2,     \* the value the second generator's last draw returned
    dest,     \* the destination after the last fill (<<>> for a draw)
    dest2,    \* the second generator's destination after the last fill
    ok,       \* the last try_fill_bytes returned Ok(())
    calls,    \* next_u32 calls so far while only next_u32 has been called,
              \* saturating at MaxCalls + 1 (0 once another operation ran)
    pure      \* only next_u32 has been called so far

vars == <<data, rng, rng2, before, op, ret, ret2, dest, dest2, ok, calls,
          pure>>

--------------------------------------------------------------------------
\* Machine words as byte sequences, most significant byte first.

\* Bit i of the byte x
Bit(x, i) == (x \div 2^i) % 2

\* x | y on bytes
BitOrNat(x, y) ==
    LET b(i) == IF Bit(x, i) = 1 \/ Bit(y, i) = 1 THEN 2^i ELSE 0
    IN  b(0) + b(1) + b(2) + b(3) + b(4) + b(5) + b(6) + b(7)

\* v | w on words of equal width
BitOr(v, w) == [i \in 1..Len(v) |-> BitOrNat(v[i], w[i])]

\* w << bits, bits a multiple of 8 and at most 64: the top bits \div 8 digits
\* are dropped and as many zero digits enter at the bottom
Shl(w, bits) ==
    SubSeq(w \o <<0, 0, 0, 0, 0, 0, 0, 0>>, bits \div 8 + 1, bits \div 8 + Len(w))

\* u8 -> u32 (.into())
into_u32(b) == <<0, 0, 0, b>>

\* u64::from(u32)
u64_from(w) == <<0, 0, 0, 0>> \o w

\* A variant of to_le_bytes: the bytes most significant first (to_be_bytes)
to_be_bytes(w) == w

\* to_le_bytes(): least significant byte first
to_le_bytes(w) == [i \in 1..Len(w) |-> w[Len(w) + 1 - i]]

\* The bytes l written before the rest of a fill
prepend(l, rest) == [self |-> rest.self, dest |-> l \o rest.dest]

\* A variant of copy_from_slice: the last byte of dst is left as it was
copy_from_slice_short(dst, src) ==
    [i \in 1..Len(dst) |-> IF i < Len(dst) THEN src[i] ELSE dst[i]]

\* dst.copy_from_slice(src), for src as long as dst: every byte of dst is
\* overwritten with the byte of src at the same index
copy_from_slice(dst, src) == SubSeq(src, 1, Len(dst))

--------------------------------------------------------------------------
\* BufRng

\* BufRng::new: the iterator over data, at its start
new(d) == [buf |-> d, pos |-> 0]

\* An Option<u8>: <<b>> is Some(b), <<>> is None
unwrap_or(o, default) == IF o = <<>> THEN default ELSE o[1]

\* A variant of iter_next: the cursor advances at the end of the buffer too
iter_next_past(self) ==
    [self |-> [self EXCEPT !.pos = self.pos + 1],
     item |-> IF self.pos < Len(self.buf)
              THEN <<self.buf[self.pos + 1]>> ELSE <<>>]

\* A variant of iter_next: a byte read is taken out of the buffer (zeroed)
iter_next_consume(self) ==
    IF self.pos < Len(self.buf)
    THEN [self |-> [self EXCEPT !.pos = self.pos + 1,
                                !.buf[self.pos + 1] = 0],
          item |-> <<self.buf[self.pos + 1]>>]
    ELSE [self |-> self, item |-> <<>>]

\* A variant of iter_next: the iterator cycles, starting over at the end of a
\* non-empty buffer (data.iter().cycle())
iter_next_cycle(self) ==
    IF Len(self.buf) = 0
    THEN [self |-> self, item |-> <<>>]
    ELSE [self |-> [self EXCEPT !.pos = (self.pos + 1) % Len(self.buf)],
          item |-> <<self.buf[(self.pos % Len(self.buf)) + 1]>>]

\* slice::Iter::next().cloned(): Some(next byte) and the advanced iterator,
\* or None and the iterator as it is
iter_next(self) ==
    IF self.pos < Len(self.buf)
    THEN [self |-> [self EXCEPT !.pos = self.pos + 1],
          item |-> <<self.buf[self.pos + 1]>>]
    ELSE [self |-> self, item |-> <<>>]

\* A variant of next: 0xFF, not zero, once the iterator is exhausted
next_ff(self) ==
    [self |-> iter_next(self).self,
     val |-> into_u32(unwrap_or(iter_next(self).item, 255))]

\* BufRng::next: the next byte, or zero, as a u32
next(self) ==
    LET r == iter_next(self)
    IN  [self |-> r.self, val |-> into_u32(unwrap_or(r.item, 0))]

\* A variant of next_u32: the first byte read is the least significant
next_u32_le(self) ==
    LET a == next(self)
        b == next(a.self)
        c == next(b.self)
        d == next(c.self)
    IN  [self |-> d.self,
         val |-> BitOr(BitOr(BitOr(Shl(d.val, 24), Shl(c.val, 16)),
                             Shl(b.val, 8)), a.val)]

\* RngCore::next_u32
next_u32(self) ==
    LET a == next(self)
        b == next(a.self)
        c == next(b.self)
        d == next(c.self)
    IN  [self |-> d.self,
         val |-> BitOr(BitOr(BitOr(Shl(a.val, 24), Shl(b.val, 16)),
                             Shl(c.val, 8)), d.val)]

\* A variant of next_u64_via_u32: the first draw is the high word
next_u64_high_first(self) ==
    LET x == next_u32(self)
        y == next_u32(x.self)
    IN  [self |-> y.self,
         val |-> BitOr(Shl(u64_from(x.val), 32), u64_from(y.val))]

\* rand_core::impls::next_u64_via_u32
next_u64_via_u32(self) ==
    LET x == next_u32(self)
        y == next_u32(x.self)
    IN  [self |-> y.self,
         val |-> BitOr(Shl(u64_from(y.val), 32), u64_from(x.val))]

\* RngCore::next_u64
next_u64(self) == next_u64_via_u32(self)

\* rand_core::impls::fill_bytes_via_next.  split_at_mut_8 is one turn of its
\* loop: the first 8 bytes of left take the little-endian bytes of the u64
\* draw r, and the loop goes on with the rest of left.
RECURSIVE fill_bytes_via_next(_, _)
RECURSIVE split_at_mut_8(_, _, _)
split_at_mut_8(self, left, r) ==
    LET l == copy_from_slice(SubSeq(left, 1, 8), to_le_bytes(r.val))
    IN  prepend(l, fill_bytes_via_next(r.self, SubSeq(left, 9, Len(left))))

fill_bytes_via_next(self, left) ==
    LET n == Len(left)
    IN  IF n >= 8
        THEN split_at_mut_8(self, left, next_u64(self))
        ELSE IF n > 4
        THEN LET r == next_u64(self)
                 chunk == to_le_bytes(r.val)
             IN  [self |-> r.self,
                  dest |-> copy_from_slice(left, SubSeq(chunk, 1, n))]
        ELSE IF n > 0
        THEN LET r == next_u32(self)
                 chunk == to_le_bytes(r.val)
             IN  [self |-> r.self,
                  dest |-> copy_from_slice(left, SubSeq(chunk, 1, n))]
        ELSE [self |-> self, dest |-> left]

\* A variant of fill_bytes: one single-byte draw for each destination byte
fill_bytes_per_byte(self, d) ==
    [self |-> [self EXCEPT
                 !.pos = IF self.pos + Len(d) <= Len(self.buf)
                         THEN self.pos + Len(d) ELSE Len(self.buf)],
     dest |-> [i \in 1..Len(d) |->
                 IF self.pos + i <= Len(self.buf)
                 THEN self.buf[self.pos + i] ELSE 0]]

\* RngCore::fill_bytes
fill_bytes(self, d) == fill_bytes_via_next(self, d)

\* Ok(()) after the fill r
Ok(r) == [self |-> r.self, dest |-> r.dest, ok |-> TRUE]

\* A variant of try_fill_bytes: an error, and nothing written, once the
\* buffer is exhausted
try_fill_bytes_err(self, d) ==
    IF self.pos < Len(self.buf) \/ Len(self.buf) = 0
    THEN Ok(fill_bytes(self, d))
    ELSE [self |-> self, dest |-> d, ok |-> FALSE]

\* RngCore::try_fill_bytes: Ok(self.fill_bytes(dest))
try_fill_bytes(self, d) == Ok(fill_bytes(self, d))

--------------------------------------------------------------------------
\* The state machine: a caller holding two generators over equal buffers and
\* calling the same operation on both, with destinations of the same length
\* that hold different bytes before the call.

\* A destination of length n holding the byte p
Dest(n, p) == [i \in 1..n |-> p]

Init ==
    /\ data \in Buffers
    /\ rng = new(data)
    /\ rng2 = new(data)
    /\ before = rng
    /\ op = "new"
    /\ ret = <<>>
    /\ ret2 = <<>>
    /\ dest = <<>>
    /\ dest2 = <<>>
    /\ ok = TRUE
    /\ calls = 0
    /\ pure = TRUE

\* The field f of what a call returned, or d when it returns no such thing
Field(r, f, d) == IF f \in DOMAIN r THEN r[f] ELSE d

\* The call o returned r on the first generator and r2 on the second
Returned(o, r, r2) ==
    /\ op' = o
    /\ before' = rng
    /\ rng' = r.self
    /\ ret' = Field(r, "val", <<>>)
    /\ dest' = Field(r, "dest", <<>>)
    /\ ok' = Field(r, "ok", TRUE)
    /\ rng2' = r2.self
    /\ ret2' = Field(r2, "val", <<>>)
    /\ dest2' = Field(r2, "dest", <<>>)
    /\ UNCHANGED data

NextU32 ==
    /\ Returned("next_u32", next_u32(rng), next_u32(rng2))
    /\ calls' = IF ~pure THEN 0
                ELSE IF calls > MaxCalls THEN calls ELSE calls + 1
    /\ UNCHANGED pure

NextU64 ==
    /\ Returned("next_u64", next_u64(rng), next_u64(rng2))
    /\ calls' = 0
    /\ pure' = FALSE

FillBytes(n, p, p2) ==
    /\ Returned("fill_bytes", fill_bytes(rng, Dest(n, p)),
                fill_bytes(rng2, Dest(n, p2)))
    /\ calls' = 0
    /\ pure' = FALSE

TryFillBytes(n, p, p2) ==
    /\ Returned("try_fill_bytes", try_fill_bytes(rng, Dest(n, p)),
                try_fill_bytes(rng2, Dest(n, p2)))
    /\ calls' = 0
    /\ pure' = FALSE

Next ==
    \/ NextU32
    \/ NextU64
    \/ \E n \in 0..MaxDest, p \in PriorVals :
           \E p2 \in PriorVals \ {p} : FillBytes(n, p, p2)
    \/ \E n \in 0..MaxDest, p \in PriorVals :
           \E p2 \in PriorVals \ {p} : TryFillBytes(n, p, p2)

Spec == Init /\ [][Next]_vars

\* A draw: next_u32, next_u64, or a fill of a non-empty destination
Draw ==
    \/ NextU32
    \/ NextU64
    \/ \E n \in 1..MaxDest, p \in PriorVals :
           \E p2 \in PriorVals \ {p} : FillBytes(n, p, p2)
    \/ \E n \in 1..MaxDest, p \in PriorVals :
           \E p2 \in PriorVals \ {p} : TryFillBytes(n, p, p2)

\* The runs in which the caller keeps making draws.  The library schedules
\* nothing: when a draw is made is the caller's choice, and a draw is enabled
\* in every state, so the fairness is stated on the steps themselves, draws
\* that change the state recurring forever (what SF_vars(Draw) asks of a run
\* in which such a draw stays possible).
LiveSpec == Spec /\ []<><<Draw>>_vars

--------------------------------------------------------------------------
\* Vocabulary of the properties.

Min(a, b) == IF a <= b THEN a ELSE b

\* ceil(n / 4)
CeilDiv4(n) == (n + 3) \div 4

\* The byte of buf at the 0-based index i, or 0 at or past its end
At(buf, i) == IF i < Len(buf) THEN buf[i + 1] ELSE 0

\* The number of bytes of r's buffer not yet read
Unread(r) == Len(r.buf) - r.pos

\* All bytes of r's buffer have been consumed
Exhausted(r) == r.pos = Len(r.buf)

AllZero(s) == \A i \in 1..Len(s) : s[i] = 0

Fills == {"fill_bytes", "try_fill_bytes"}

\* The 1-based index, among the unread bytes, of the byte that byte i of a
\* destination takes when every 4-byte draw is written least significant
\* byte first: 4, 3, 2, 1, 8, 7, 6, 5, ...
LeIndex(i) == 4 * ((i - 1) \div 4) + 4 - ((i - 1) % 4)

\* The generator after k next_u32 calls
RECURSIVE AfterDraws(_, _)
AfterDraws(r, k) == IF k = 0 THEN r ELSE AfterDraws(next_u32(r).self, k - 1)

--------------------------------------------------------------------------
\* C1: on a generator used only through next_u32, the k-th call (k >= 1)
\* returns the u32 whose bytes, most significant first, are buffer[4(k-1)],
\* buffer[4(k-1)+1], buffer[4(k-1)+2], buffer[4(k-1)+3], an index at or past
\* the end of the buffer counting as 0.
C1_NextU32PacksBigEndian ==
    (op = "next_u32" /\ pure /\ calls \in 1..MaxCalls) =>
        ret = << At(data, 4 * (calls - 1)), At(data, 4 * (calls - 1) + 1),
                 At(data, 4 * (calls - 1) + 2), At(data, 4 * (calls - 1) + 3) >>

\* The second call on [1, 2, 3, 4, 5, 6] returns 0x05060000.
C1_Witness ==
    /\ op = "next_u32" /\ pure /\ calls = 2
    /\ data = <<1, 2, 3, 4, 5, 6>>
    /\ ret = <<5, 6, 0, 0>>

\* C2: an operation that starts with every buffer byte consumed yields zeros
\* only: next_u32 returns 0, next_u64 returns 0, and a fill writes 0 into
\* every byte of its destination.
C2_ExhaustedYieldsZero ==
    (op # "new" /\ Exhausted(before)) =>
        /\ op = "next_u32" => ret = <<0, 0, 0, 0>>
        /\ op = "next_u64" => ret = <<0, 0, 0, 0, 0, 0, 0, 0>>
        /\ op \in Fills => AllZero(dest) /\ AllZero(dest2)

\* A 7-byte fill on an exhausted generator over a non-empty buffer of
\* non-zero bytes, after an earlier operation consumed the buffer.
C2_Witness ==
    /\ op = "fill_bytes" /\ Exhausted(before) /\ before.pos = 5
    /\ data = <<1, 2, 3, 4, 5>>
    /\ Len(dest) = 7 /\ AllZero(dest)

\* C3 as stated: with at least 4 * ceil(n / 4) unread bytes, a fill of n bytes
\* writes the unread bytes in buffer order, dest[i] being the i-th unread byte.
C3_FillCopiesUnreadBytes ==
    (op \in Fills /\ Unread(before) >= 4 * CeilDiv4(Len(dest))) =>
        \A i \in 1..Len(dest) : dest[i] = before.buf[before.pos + i]

\* C3 as amended: with at least 4 * ceil(n / 4) unread bytes, a fill of n bytes
\* writes the consecutive next_u32 draws each least significant byte first,
\* truncated to n: every group of four unread bytes is written in reverse.
C3_FillWritesLittleEndianDraws ==
    (op \in Fills /\ Unread(before) >= 4 * CeilDiv4(Len(dest))) =>
        \A i \in 1..Len(dest) : dest[i] = before.buf[before.pos + LeIndex(i)]

\* A 6-byte fill from [1, ..., 8] writes [4, 3, 2, 1, 8, 7].
C3_Witness ==
    /\ op = "fill_bytes" /\ before.pos = 0
    /\ data = <<1, 2, 3, 4, 5, 6, 7, 8>>
    /\ dest = <<4, 3, 2, 1, 8, 7>>

\* C4 as stated: next_u64 returns (x << 32) | y, x the first and y the second
\* of two consecutive next_u32 draws from the same cursor.
C4_NextU64HighWordFirst ==
    op = "next_u64" =>
        ret = next_u32(before).val \o next_u32(next_u32(before).self).val

\* C4 as amended: next_u64 returns (y << 32) | x: the first draw is the low
\* word and the second draw is the high word.
C4_NextU64LowWordFirst ==
    op = "next_u64" =>
        ret = next_u32(next_u32(before).self).val \o next_u32(before).val

\* next_u64 on [1, ..., 8] returns 0x0506070801020304.
C4_Witness ==
    /\ op = "next_u64" /\ before.pos = 0
    /\ data = <<1, 2, 3, 4, 5, 6, 7, 8>>
    /\ ret = <<5, 6, 7, 8, 1, 2, 3, 4>>

\* C5: try_fill_bytes returns Ok(()), and writes the bytes and leaves the
\* generator that fill_bytes does from the same generator on a destination of
\* the same length, whatever the destination held.
C5_TryFillAlwaysOk ==
    op = "try_fill_bytes" =>
        /\ ok
        /\ \A p \in PriorVals :
               /\ fill_bytes(before, Dest(Len(dest), p)).self = rng
               /\ fill_bytes(before, Dest(Len(dest), p)).dest = dest

\* A 3-byte try_fill_bytes on a partly consumed generator.
C5_Witness ==
    /\ op = "try_fill_bytes" /\ ok
    /\ 0 < before.pos /\ before.pos < Len(data)
    /\ Len(dest) = 3

\* C6: the cursor stays within 0..length of the buffer, no operation moves it
\* back, and an operation that starts at the end of the buffer leaves it there.
C6_CursorBoundedMonotone ==
    /\ rng.pos \in 0..Len(rng.buf)
    /\ before.pos <= rng.pos
    /\ Exhausted(before) => rng.pos = before.pos

\* A next_u64 that starts 3 bytes before the end of a 7-byte buffer.
C6_Witness ==
    /\ op = "next_u64" /\ Len(data) = 7
    /\ before.pos = 4 /\ rng.pos = 7

\* C7: two generators built from equal buffers and driven by the same
\* operations return equal values, write equal destination contents, whatever
\* the destinations held before, and are left with equal cursors.
C7_TwinGeneratorsAgree ==
    /\ rng2 = rng
    /\ ret2 = ret
    /\ dest2 = dest

\* A 6-byte fill, the two destinations holding different bytes before it.
C7_Witness ==
    /\ op = "fill_bytes" /\ before.pos = 4 /\ Len(data) = 12
    /\ Len(dest) = 6 /\ dest2 = dest /\ rng2.pos = 12

\* C8: the buffer a generator views is the buffer given to new, in length and
\* in every byte, after any operations; a generator is its buffer and cursor.
C8_BufferUnchanged ==
    /\ rng.buf = data
    /\ rng2.buf = data
    /\ DOMAIN rng = {"buf", "pos"}

\* A fill that consumed the whole of [255, 0, 1, 2, 3].
C8_Witness ==
    /\ op = "fill_bytes" /\ data = <<255, 0, 1, 2, 3>>
    /\ before.pos = 0 /\ rng.pos = 5

\* C9: in a run that keeps making draws the generator is eventually exhausted
\* and stays so; no step leads from exhausted to active; and through next_u32
\* alone it is exhausted after k calls exactly when 4k >= buffer length.
C9_EventuallyExhaustedForever ==
    /\ [](pure /\ calls <= MaxCalls =>
            (Exhausted(rng) <=> 4 * calls >= Len(data)))
    /\ [][Exhausted(rng) => Exhausted(rng')]_vars
    /\ <>[]Exhausted(rng)

\* The second next_u32 on a 7-byte buffer exhausts it; the first did not.
C9_Witness ==
    /\ op = "next_u32" /\ pure /\ calls = 2 /\ Len(data) = 7
    /\ ~Exhausted(before) /\ Exhausted(rng)

\* C10: a fill of n bytes moves the cursor by min(unread, 4 * ceil(n / 4)),
\* as ceil(n / 4) next_u32 calls do; a fill of 0 bytes leaves it.
C10_FillConsumesWholeDraws ==
    op \in Fills =>
        /\ rng.pos = before.pos
                     + Min(Unread(before), 4 * CeilDiv4(Len(dest)))
        /\ rng = AfterDraws(before, CeilDiv4(Len(dest)))
        /\ Len(dest) = 0 => rng = before

\* A 5-byte fill from the start of a 12-byte buffer consumes 8 bytes.
C10_Witness ==
    /\ op = "fill_bytes" /\ Len(data) = 12
    /\ before.pos = 0 /\ Len(dest) = 5 /\ rng.pos = 8

====
